---- MODULE Spec2Model ----
(***************************************************************************)
(* Model of src/sshfs_mount/sshfs_mount.cpp: the resolution of the remote  *)
(* sshfs invocation, the provisioning of the mount target and the          *)
(* lifecycle (construction, stop, destruction) of mp::SshfsMount.          *)
(*                                                                         *)
(* Texts (command lines, captured output) are TLA+ strings; the string     *)
(* helpers below compute on them character by character, the way the       *)
(* C++ library calls of the source do.                                     *)
(***************************************************************************)
EXTENDS Integers, Sequences, FiniteSets, TLC

(***************************************************************************)
(* Bounds of the model.                                                    *)
(***************************************************************************)
\* number of explicit stop() calls a client makes before destroying the mount
MaxStops == 2

(***************************************************************************)
(* Constants of the source.                                                *)
(***************************************************************************)
fuse_version_string == "FUSE library version"
ld_library_path_key == "LD_LIBRARY_PATH="
snap_path_key == "SNAP="
fixed_options == " -o slave -o transform_symlinks -o allow_other"
nonempty_option == " -o nonempty"
threshold_version == "3.0.0"

(***************************************************************************)
(* std::string helpers.                                                    *)
(***************************************************************************)
CharAt(s, i) == SubSeq(s, i, i)

Digits == {"0", "1", "2", "3", "4", "5", "6", "7", "8", "9"}

Spaces == {" ", "\n", "\t", "\r"}

\* s has m at (1-based) position i
MatchAt(s, m, i) == i >= 1 /\ i + Len(m) - 1 <= Len(s) /\ SubSeq(s, i, i + Len(m) - 1) = m

\* std::string::find: the first position of m at or after position from, 0 when there is none
RECURSIVE FindFrom(_, _, _)
FindFrom(s, m, from) ==
    IF from + Len(m) - 1 > Len(s) THEN 0
    ELSE IF MatchAt(s, m, from) THEN from
    ELSE FindFrom(s, m, from + 1)

\* number of non-overlapping occurrences of m in s
RECURSIVE CountFrom(_, _, _)
CountFrom(s, m, from) ==
    LET p == FindFrom(s, m, from)
    IN IF p = 0 THEN 0 ELSE 1 + CountFrom(s, m, p + Len(m))

Count(s, m) == CountFrom(s, m, 1)

Contains(s, m) == FindFrom(s, m, 1) # 0

EndsWith(s, m) == MatchAt(s, m, Len(s) - Len(m) + 1)

\* substr as it would be if an out-of-range pos gave an empty string instead of throwing
substr_clamped(s, pos) ==
    [threw |-> FALSE, what |-> "", value |-> SubSeq(s, pos + 1, Len(s))]

\* std::string::substr(pos) with a 0-based pos: throws std::out_of_range when pos > size()
substr(s, pos) ==
    IF pos > Len(s) THEN [threw |-> TRUE, what |-> "out_of_range", value |-> ""]
    ELSE [threw |-> FALSE, what |-> "", value |-> SubSeq(s, pos + 1, Len(s))]

\* the value of a string of decimal digits
RECURSIVE DigitsValue(_)
DigitsValue(s) ==
    IF Len(s) = 0 THEN 0
    ELSE LET d == CHOOSE n \in 0..9 : ToString(n) = CharAt(s, Len(s))
         IN 10 * DigitsValue(SubSeq(s, 1, Len(s) - 1)) + d

\* the length of the longest run of characters of set cs that starts at position i
RECURSIVE RunLen(_, _, _)
RunLen(s, cs, i) ==
    IF i > Len(s) \/ CharAt(s, i) \notin cs THEN 0 ELSE 1 + RunLen(s, cs, i + 1)

\* std::stoi: skips leading whitespace, takes an optional sign and the longest
\* run of digits, and throws std::invalid_argument when there is no digit
stoi(s) ==
    LET ws == RunLen(s, Spaces, 1)
        sg == IF ws + 1 <= Len(s) /\ CharAt(s, ws + 1) \in {"+", "-"} THEN 1 ELSE 0
        n == RunLen(s, Digits, ws + sg + 1)
        mag == DigitsValue(SubSeq(s, ws + sg + 1, ws + sg + n))
    IN IF n = 0 THEN [threw |-> TRUE, what |-> "invalid_argument", value |-> 0]
       ELSE [threw |-> FALSE, what |-> "",
             value |-> IF sg = 1 /\ CharAt(s, ws + 1) = "-" THEN 0 - mag ELSE mag]

(***************************************************************************)
(* mp::utils helpers (declared in multipass/utils.h).                      *)
(***************************************************************************)
\* trim_end: erases the trailing whitespace of s
RECURSIVE trim_end(_)
trim_end(s) ==
    IF Len(s) > 0 /\ CharAt(s, Len(s)) \in Spaces THEN trim_end(SubSeq(s, 1, Len(s) - 1)) ELSE s

\* std::getline on the unread rest of a stream: the next line and what is left
\* after it; eof is TRUE when nothing could be read
getline(rest) ==
    LET p == FindFrom(rest, "\n", 1)
    IN IF Len(rest) = 0 THEN [eof |-> TRUE, line |-> "", rest |-> ""]
       ELSE IF p = 0 THEN [eof |-> FALSE, line |-> rest, rest |-> ""]
       ELSE [eof |-> FALSE, line |-> SubSeq(rest, 1, p - 1), rest |-> SubSeq(rest, p + 1, Len(rest))]

\* match_line_for on an input stream: reads lines from the stream's current
\* position until one carries the key; gives the line (empty when no line
\* matches) and the unread rest of the stream
RECURSIVE match_line_for(_, _)
match_line_for(rest, matcher) ==
    LET g == getline(rest)
    IN IF g.eof THEN [line |-> "", rest |-> ""]
       ELSE IF MatchAt(g.line, matcher, 1) THEN [line |-> g.line, rest |-> g.rest]
       ELSE match_line_for(g.rest, matcher)

\* the end (exclusive) of a match of the pattern "<key>:* " that starts at position i
\* of s, 0 when the pattern does not match there
DelimiterEnd(s, key, i) ==
    IF ~MatchAt(s, key, i) THEN 0
    ELSE LET c == RunLen(s, {":"}, i + Len(key))
             e == i + Len(key) + c
         IN IF e <= Len(s) /\ CharAt(s, e) = " " THEN e + 1 ELSE 0

\* the first position at or after from where the pattern "<key>:* " matches, 0 when none
RECURSIVE DelimiterFrom(_, _, _)
DelimiterFrom(s, key, from) ==
    IF from > Len(s) THEN 0
    ELSE IF DelimiterEnd(s, key, from) # 0 THEN from
    ELSE DelimiterFrom(s, key, from + 1)

\* split(s, "<key>:* "): the pieces of s between the matches of the pattern; a
\* piece before a match is kept even when empty, an empty piece after the last
\* match is dropped
RECURSIVE split(_, _)
split(s, key) ==
    LET p == DelimiterFrom(s, key, 1)
    IN IF p = 0 THEN (IF Len(s) = 0 THEN << >> ELSE <<s>>)
       ELSE <<SubSeq(s, 1, p - 1)>> \o split(SubSeq(s, DelimiterEnd(s, key, p), Len(s)), key)

(***************************************************************************)
(* version::Semver200_version (semver200.h).                               *)
(***************************************************************************)
\* the pieces of s between the occurrences of the character ch
RECURSIVE SplitChar(_, _)
SplitChar(s, ch) ==
    LET p == FindFrom(s, ch, 1)
    IN IF p = 0 THEN <<s>>
       ELSE <<SubSeq(s, 1, p - 1)>> \o SplitChar(SubSeq(s, p + 1, Len(s)), ch)

IsNumber(s) == Len(s) > 0 /\ \A i \in 1..Len(s) : CharAt(s, i) \in Digits

\* the parser of Semver200_version: <major>.<minor>.<patch>[-<prerelease>][+<build>];
\* ok is FALSE where the constructor throws version::Parse_error
Semver200_version(v) ==
    LET plus == FindFrom(v, "+", 1)
        main == IF plus = 0 THEN v ELSE SubSeq(v, 1, plus - 1)
        build == IF plus = 0 THEN "" ELSE SubSeq(v, plus + 1, Len(v))
        dash == FindFrom(main, "-", 1)
        core == IF dash = 0 THEN main ELSE SubSeq(main, 1, dash - 1)
        pre == IF dash = 0 THEN "" ELSE SubSeq(main, dash + 1, Len(main))
        parts == SplitChar(core, ".")
        ok == /\ Len(parts) = 3
              /\ \A i \in 1..Len(parts) : IsNumber(parts[i])
              /\ dash # 0 => Len(pre) > 0
              /\ plus # 0 => Len(build) > 0
    IN IF ok THEN [ok |-> TRUE, major |-> DigitsValue(parts[1]), minor |-> DigitsValue(parts[2]),
                   patch |-> DigitsValue(parts[3]), pre |-> pre]
       ELSE [ok |-> FALSE, major |-> 0, minor |-> 0, patch |-> 0, pre |-> ""]

\* operator< of two parsed versions: major, minor and patch compare as numbers;
\* on equal numbers a version with a pre-release part precedes one without.
\* (Two pre-release parts are compared identifier by identifier in the library;
\* the right-hand side here is always "3.0.0", which has none.)
SemverLess(a, b) ==
    \/ a.major < b.major
    \/ a.major = b.major /\ a.minor < b.minor
    \/ a.major = b.major /\ a.minor = b.minor /\ a.patch < b.patch
    \/ a.major = b.major /\ a.minor = b.minor /\ a.patch = b.patch /\ a.pre # "" /\ b.pre = ""

(***************************************************************************)
(* run_cmd: the result of SSHSession::exec is a record of the captured     *)
(* standard output, standard error and the exit code.                      *)
(***************************************************************************)
Result(out, errtext, code) == [out |-> out, err |-> errtext, code |-> code]

NoResult == Result("", "", -1)

run_cmd(r) ==
    IF r.code # 0 THEN [threw |-> TRUE, what |-> r.err, value |-> ""]
    ELSE [threw |-> FALSE, what |-> "", value |-> r.out \o r.err]

(***************************************************************************)
(* What the remote host can answer to each command.                        *)
(***************************************************************************)
\* sudo multipass-sshfs.env
SnapResults ==
    { Result("", "sudo: multipass-sshfs.env: command not found\n", 1),
      Result("LD_LIBRARY_PATH=/s/lib\nSNAP=/s\n", "", 0),
      Result("PATH=/bin\nLD_LIBRARY_PATH=/s/lib\nSNAP=/s\n", "warn\n", 0),
      Result("SNAP=/s\nLD_LIBRARY_PATH=/s/lib\n", "", 0),
      Result("LD_LIBRARY_PATH=/s/lib\n", "", 0),
      Result("SNAP=/s\n", "", 0),
      Result("", "", 0) }

\* sudo which sshfs
WhichResults ==
    { Result("", "", 1),
      Result("/usr/bin/sshfs\n", "", 0) }

\* the text that follows the version marker in the banner
VersionTexts ==
    { "2.9.9", "2.10.0", "3.0.0", "3.4.1", "10.0.0", "3.0.0-rc1", "2.9", "abc" }

Banner == "SSHFS version 2.8\n"

\* sudo <sshfs> -V
VersionResults ==
    { Result("", "sshfs: not found\n", 127),
      Result("", "", 0),
      Result(Banner, "", 0),
      Result(Banner \o "FUSE library version: \n", "", 0),
      Result(Banner \o "FUSE library version\n", "", 0),
      Result(Banner \o "FUSE library version 2.9.9\n", "", 0),
      Result(Banner \o "FUSE library version:: 2.9.9\n", "", 0),
      Result(Banner, "FUSE library version: 2.9.9\n", 0) }
    \cup { Result(Banner \o "FUSE library version: " \o v \o "\nfusermount version: 2.9.9\n", "", 0) :
             v \in VersionTexts }

\* what an out-of-range read of tokens[1] can leave in fuse_version
GarbageVersions == { "", "2.9.9", "?" }

\* sudo mkdir -p "<target>" and sudo chown <user>:<group> "<target>"
PlainResults ==
    { Result("", "", 0),
      Result("", "permission denied\n", 1) }

\* id -nu and id -ng
IdNameResults ==
    { Result("ubuntu\n", "", 0),
      Result("ubuntu\n", "warning\n", 0),
      Result("", "id: cannot find name\n", 1) }

\* id -u and id -g
IdNumberResults ==
    { Result("1000\n", "", 0),
      Result("1000\n", "warning\n", 0),
      Result("", "", 0),
      Result("", "id: failed\n", 1) }

\* the commands of the setup
Commands == { "snap", "which", "version", "mkdir", "id_nu", "id_ng", "chown", "id_u", "id_g" }

\* the target path the mount was requested for
target == "/mnt"

\* the threads of the client that may call stop() on the mount
Callers == { "c1", "c2" }

(***************************************************************************)
(* State.                                                                  *)
(***************************************************************************)
VARIABLES
    pc,             \* position of the constructing thread in SshfsMount::SshfsMount
    err,            \* the exception that left the constructor, "none" when none
    log,            \* the commands run_cmd has executed on the session, in order
    hist,           \* what the host answered to each command, NoResult before it ran
    sshfs_exec,     \* get_sshfs_exec_and_options: the invocation being built
    vm_user,        \* set_owner_for: output of id -nu
    vm_group,       \* set_owner_for: output of id -ng
    default_uid,    \* make_sftp_server: std::stoi of id -u
    default_gid,    \* make_sftp_server: std::stoi of id -g
    session_owner,  \* who holds the SSHSession: the caller's controller or the SftpServer
    sftp_server,    \* the sftp_server member: "null", "constructed" or "destroyed"
    stop_requested, \* the SftpServer has been told to stop
    signals,        \* number of calls of SftpServer::stop
    thread,         \* the sftp_thread's body: "none", "spawned", "serving", "finished"
    exit_cause,     \* why run() returned: "none" while it has not, "stopped" or "transport"
    joinable,       \* sftp_thread.joinable()
    joins,          \* number of completed sftp_thread.join() calls
    spc,            \* position of each caller inside SshfsMount::stop, "idle" outside
    in_dtor,        \* the caller that runs ~SshfsMount, "none" when nobody does
    nstops,         \* number of explicit stop() calls made so far
    destroyed       \* ~SshfsMount has returned

ctlVars == <<pc, err, log>>
resolveVars == <<hist, sshfs_exec>>
provVars == <<vm_user, vm_group, default_uid, default_gid>>
serverVars == <<session_owner, sftp_server, stop_requested, signals>>
threadVars == <<thread, exit_cause, joinable, joins>>
clientVars == <<spc, in_dtor, nstops, destroyed>>
vars == <<pc, err, log, hist, sshfs_exec, vm_user, vm_group, default_uid, default_gid,
          session_owner, sftp_server, stop_requested, signals, thread, exit_cause, joinable,
          joins, spc, in_dtor, nstops, destroyed>>

Init ==
    /\ pc = "probe_snap"
    /\ err = "none"
    /\ log = << >>
    /\ hist = [c \in Commands |-> NoResult]
    /\ sshfs_exec = ""
    /\ vm_user = ""
    /\ vm_group = ""
    /\ default_uid = -1
    /\ default_gid = -1
    /\ session_owner = "controller"
    /\ sftp_server = "null"
    /\ stop_requested = FALSE
    /\ signals = 0
    /\ thread = "none"
    /\ exit_cause = "none"
    /\ joinable = FALSE
    /\ joins = 0
    /\ spc = [t \in Callers |-> "idle"]
    /\ in_dtor = "none"
    /\ nstops = 0
    /\ destroyed = FALSE

\* an exception leaves make_sftp_server and with it the constructor
Throw(e) == pc' = "failed" /\ err' = e

(***************************************************************************)
(* get_sshfs_exec_and_options.                                             *)
(***************************************************************************)
\* the body of the outer try block: threw is TRUE when an exception reaches the
\* catch clause, exec is the invocation built from the helper's output
SnapProbe(r) ==
    LET c == run_cmd(r)
        ld_library_path == match_line_for(c.value, ld_library_path_key)
        snap_line == match_line_for(ld_library_path.rest, snap_path_key)
        snap_path == substr(snap_line.line, Len(snap_path_key))
    IN IF c.threw \/ snap_path.threw THEN [threw |-> TRUE, exec |-> ""]
       ELSE [threw |-> FALSE,
             exec |-> "env " \o ld_library_path.line \o " " \o snap_path.value \o "/bin/sshfs"]

\* ProbeSnap as it would be if the system lookup were run after a successful probe too
ProbeSnap_alwayslookup ==
    /\ pc = "probe_snap"
    /\ \E r \in SnapResults :
         LET p == SnapProbe(r)
         IN /\ log' = Append(log, "sudo multipass-sshfs.env")
            /\ hist' = [hist EXCEPT !.snap = r]
            /\ pc' = "probe_which"
            /\ sshfs_exec' = IF p.threw THEN sshfs_exec ELSE p.exec
    /\ UNCHANGED <<err, provVars, serverVars, threadVars, clientVars>>

\* ProbeSnap as it would be without the fallback: a failed probe ends resolution
ProbeSnap_nofallback ==
    /\ pc = "probe_snap"
    /\ \E r \in SnapResults :
         LET p == SnapProbe(r)
         IN /\ log' = Append(log, "sudo multipass-sshfs.env")
            /\ hist' = [hist EXCEPT !.snap = r]
            /\ IF p.threw
               THEN Throw("SSHFSMissingError") /\ sshfs_exec' = sshfs_exec
               ELSE pc' = "query_version" /\ err' = err /\ sshfs_exec' = p.exec
    /\ UNCHANGED <<provVars, serverVars, threadVars, clientVars>>

ProbeSnap ==
    /\ pc = "probe_snap"
    /\ \E r \in SnapResults :
         LET p == SnapProbe(r)
         IN /\ log' = Append(log, "sudo multipass-sshfs.env")
            /\ hist' = [hist EXCEPT !.snap = r]
            /\ IF p.threw
               THEN pc' = "probe_which" /\ sshfs_exec' = sshfs_exec
               ELSE pc' = "query_version" /\ sshfs_exec' = p.exec
    /\ UNCHANGED <<err, provVars, serverVars, threadVars, clientVars>>

\* ProbeWhich as it would be if a failed lookup were tried a second time
ProbeWhich_retry ==
    /\ pc = "probe_which"
    /\ \E r \in WhichResults :
         LET c == run_cmd(r)
         IN /\ log' = Append(log, "sudo which sshfs")
            /\ hist' = [hist EXCEPT !.which = r]
            /\ IF c.threw /\ hist["which"] = NoResult
               THEN pc' = pc /\ err' = err /\ sshfs_exec' = sshfs_exec
               ELSE IF c.threw
               THEN Throw("SSHFSMissingError") /\ sshfs_exec' = sshfs_exec
               ELSE pc' = "query_version" /\ err' = err /\ sshfs_exec' = c.value
    /\ UNCHANGED <<provVars, serverVars, threadVars, clientVars>>

\* ProbeWhich as it would be if the failure of the lookup were swallowed
ProbeWhich_swallow ==
    /\ pc = "probe_which"
    /\ \E r \in WhichResults :
         LET c == run_cmd(r)
         IN /\ log' = Append(log, "sudo which sshfs")
            /\ hist' = [hist EXCEPT !.which = r]
            /\ pc' = "query_version" /\ err' = err /\ sshfs_exec' = c.value
    /\ UNCHANGED <<provVars, serverVars, threadVars, clientVars>>

\* the fallback in the catch clause
ProbeWhich ==
    /\ pc = "probe_which"
    /\ \E r \in WhichResults :
         LET c == run_cmd(r)
         IN /\ log' = Append(log, "sudo which sshfs")
            /\ hist' = [hist EXCEPT !.which = r]
            /\ IF c.threw
               THEN Throw("SSHFSMissingError") /\ sshfs_exec' = sshfs_exec
               ELSE pc' = "query_version" /\ err' = err /\ sshfs_exec' = c.value
    /\ UNCHANGED <<provVars, serverVars, threadVars, clientVars>>

\* what fuse_version can hold after "auto fuse_version = tokens[1]": the second
\* piece when there is one; otherwise the read is out of range and the program
\* aborts or goes on with whatever the read produced
FuseVersions(fuse_version_line) ==
    LET tokens == split(fuse_version_line, fuse_version_string)
    IN IF Len(tokens) >= 2 THEN { [crash |-> FALSE, value |-> tokens[2]] }
       ELSE { [crash |-> TRUE, value |-> ""] } \cup
            { [crash |-> FALSE, value |-> g] : g \in GarbageVersions }

\* the characters of version texts in the order of their codes
CharOrder == "+-.0123456789?abcdefghijklmnopqrstuvwxyz"

\* operator< of std::string: lexicographic comparison by character code
RECURSIVE StrLess(_, _)
StrLess(a, b) ==
    IF Len(b) = 0 THEN FALSE
    ELSE IF Len(a) = 0 THEN TRUE
    ELSE IF Head(a) # Head(b) THEN FindFrom(CharOrder, Head(a), 1) < FindFrom(CharOrder, Head(b), 1)
    ELSE StrLess(Tail(a), Tail(b))

\* LegacyGate as it would be if the version texts were compared as strings
LegacyGate_lexical(fuse_version) ==
    IF fuse_version = "" THEN [threw |-> FALSE, legacy |-> FALSE]
    ELSE LET v == Semver200_version(fuse_version)
         IN IF ~v.ok THEN [threw |-> TRUE, legacy |-> FALSE]
            ELSE [threw |-> FALSE, legacy |-> StrLess(fuse_version, threshold_version)]

\* the version gate: whether " -o nonempty" is appended; threw is TRUE when
\* the Semver200_version constructor throws
LegacyGate(fuse_version) ==
    IF fuse_version = "" THEN [threw |-> FALSE, legacy |-> FALSE]
    ELSE LET v == Semver200_version(fuse_version)
         IN IF ~v.ok THEN [threw |-> TRUE, legacy |-> FALSE]
            ELSE [threw |-> FALSE, legacy |-> SemverLess(v, Semver200_version(threshold_version))]

\* GateOutcomes as it would be without the test for an empty line
GateOutcomes_nocheck(fuse_version_line) ==
    { IF fv.crash THEN [kind |-> "crash", legacy |-> FALSE]
      ELSE IF LegacyGate(fv.value).threw THEN [kind |-> "throw", legacy |-> FALSE]
      ELSE [kind |-> "ok", legacy |-> LegacyGate(fv.value).legacy] :
      fv \in FuseVersions(fuse_version_line) }

\* lines 89-99: what the version gate can do with the matched line: kind is
\* "ok" (legacy tells whether " -o nonempty" is appended), "throw" or "crash"
GateOutcomes(fuse_version_line) ==
    IF fuse_version_line = "" THEN { [kind |-> "ok", legacy |-> FALSE] }
    ELSE { IF fv.crash THEN [kind |-> "crash", legacy |-> FALSE]
           ELSE IF LegacyGate(fv.value).threw THEN [kind |-> "throw", legacy |-> FALSE]
           ELSE [kind |-> "ok", legacy |-> LegacyGate(fv.value).legacy] :
           fv \in FuseVersions(fuse_version_line) }

\* VersionCmd as it would be if the options were appended before the query
VersionCmd_withoptions(exec) == "sudo " \o exec \o fixed_options \o " -V"

\* the command of the version query for the executable found by the probes
VersionCmd(exec) == "sudo " \o exec \o " -V"

QueryVersion ==
    /\ pc = "query_version"
    /\ \E r \in VersionResults :
         LET exec == trim_end(sshfs_exec)
             c == run_cmd(r)
             with_options == exec \o fixed_options
             fuse_version_line == match_line_for(c.value, fuse_version_string).line
         IN /\ log' = Append(log, VersionCmd(exec))
            /\ hist' = [hist EXCEPT !.version = r]
            /\ IF c.threw
               THEN Throw("runtime_error") /\ sshfs_exec' = exec
               ELSE \E g \in GateOutcomes(fuse_version_line) :
                      /\ sshfs_exec' = IF g.legacy THEN with_options \o nonempty_option
                                       ELSE with_options
                      /\ IF g.kind = "crash" THEN pc' = "crashed" /\ err' = err
                         ELSE IF g.kind = "throw" THEN Throw("Parse_error")
                         ELSE pc' = "mkdir" /\ err' = err
    /\ UNCHANGED <<provVars, serverVars, threadVars, clientVars>>

(***************************************************************************)
(* make_target_dir, set_owner_for and the identifier queries of            *)
(* make_sftp_server.                                                       *)
(***************************************************************************)
MkdirCmd == "sudo mkdir -p \"" \o target \o "\""

ChownCmd(user, group) == "sudo chown " \o user \o ":" \o group \o " \"" \o target \o "\""

make_target_dir ==
    /\ pc = "mkdir"
    /\ \E r \in PlainResults :
         LET c == run_cmd(r)
         IN /\ log' = Append(log, MkdirCmd)
            /\ hist' = [hist EXCEPT !.mkdir = r]
            /\ IF c.threw THEN Throw("runtime_error") ELSE pc' = "id_nu" /\ err' = err
    /\ UNCHANGED <<sshfs_exec, provVars, serverVars, threadVars, clientVars>>

IdNu ==
    /\ pc = "id_nu"
    /\ \E r \in IdNameResults :
         LET c == run_cmd(r)
         IN /\ log' = Append(log, "id -nu")
            /\ hist' = [hist EXCEPT !.id_nu = r]
            /\ IF c.threw
               THEN Throw("runtime_error") /\ vm_user' = vm_user
               ELSE pc' = "id_ng" /\ err' = err /\ vm_user' = c.value
    /\ UNCHANGED <<sshfs_exec, vm_group, default_uid, default_gid, serverVars, threadVars, clientVars>>

IdNg ==
    /\ pc = "id_ng"
    /\ \E r \in IdNameResults :
         LET c == run_cmd(r)
         IN /\ log' = Append(log, "id -ng")
            /\ hist' = [hist EXCEPT !.id_ng = r]
            /\ IF c.threw
               THEN Throw("runtime_error") /\ vm_group' = vm_group
               ELSE pc' = "chown" /\ err' = err /\ vm_group' = c.value
    /\ UNCHANGED <<sshfs_exec, vm_user, default_uid, default_gid, serverVars, threadVars, clientVars>>

Chown ==
    /\ pc = "chown"
    /\ vm_user' = trim_end(vm_user)
    /\ vm_group' = trim_end(vm_group)
    /\ \E r \in PlainResults :
         LET c == run_cmd(r)
         IN /\ log' = Append(log, ChownCmd(trim_end(vm_user), trim_end(vm_group)))
            /\ hist' = [hist EXCEPT !.chown = r]
            /\ IF c.threw THEN Throw("runtime_error") ELSE pc' = "id_u" /\ err' = err
    /\ UNCHANGED <<sshfs_exec, default_uid, default_gid, serverVars, threadVars, clientVars>>

IdU ==
    /\ pc = "id_u"
    /\ \E r \in IdNumberResults :
         LET c == run_cmd(r)
             n == stoi(c.value)
         IN /\ log' = Append(log, "id -u")
            /\ hist' = [hist EXCEPT !.id_u = r]
            /\ IF c.threw THEN Throw("runtime_error") /\ default_uid' = default_uid
               ELSE IF n.threw THEN Throw("invalid_argument") /\ default_uid' = default_uid
               ELSE pc' = "id_g" /\ err' = err /\ default_uid' = n.value
    /\ UNCHANGED <<sshfs_exec, vm_user, vm_group, default_gid, serverVars, threadVars, clientVars>>

\* IdG as it would be if a failed or unusable id -g fell back to gid 0
IdG_swallow ==
    /\ pc = "id_g"
    /\ \E r \in IdNumberResults :
         LET c == run_cmd(r)
             n == stoi(c.value)
         IN /\ log' = Append(log, "id -g")
            /\ hist' = [hist EXCEPT !.id_g = r]
            /\ pc' = "make_server" /\ err' = err
            /\ default_gid' = IF c.threw \/ n.threw THEN 0 ELSE n.value
    /\ UNCHANGED <<sshfs_exec, vm_user, vm_group, default_uid, serverVars, threadVars, clientVars>>

IdG ==
    /\ pc = "id_g"
    /\ \E r \in IdNumberResults :
         LET c == run_cmd(r)
             n == stoi(c.value)
         IN /\ log' = Append(log, "id -g")
            /\ hist' = [hist EXCEPT !.id_g = r]
            /\ IF c.threw THEN Throw("runtime_error") /\ default_gid' = default_gid
               ELSE IF n.threw THEN Throw("invalid_argument") /\ default_gid' = default_gid
               ELSE pc' = "make_server" /\ err' = err /\ default_gid' = n.value
    /\ UNCHANGED <<sshfs_exec, vm_user, vm_group, default_uid, serverVars, threadVars, clientVars>>

(***************************************************************************)
(* The SftpServer (multipass/sshfs_mount/sftp_server.h) as the controller  *)
(* uses it: its constructor takes the session, run() blocks until the      *)
(* server was told to stop or the transport fails, stop() tells it to stop.*)
(***************************************************************************)
\* MakeServer as it would be if the server were given the session without the
\* controller giving it up
MakeServer_keep ==
    /\ pc = "make_server"
    /\ \E ok \in BOOLEAN :
         IF ok
         THEN /\ pc' = "spawn_thread" /\ err' = err
              /\ sftp_server' = "constructed"
              /\ session_owner' = session_owner
         ELSE /\ Throw("server_error")
              /\ sftp_server' = sftp_server
              /\ session_owner' = session_owner
    /\ UNCHANGED <<log, resolveVars, provVars, stop_requested, signals, threadVars, clientVars>>

\* std::make_unique<mp::SftpServer>(std::move(session), ...)
MakeServer ==
    /\ pc = "make_server"
    /\ \E ok \in BOOLEAN :
         IF ok
         THEN /\ pc' = "spawn_thread" /\ err' = err
              /\ sftp_server' = "constructed"
              /\ session_owner' = "server"
         ELSE /\ Throw("server_error")
              /\ sftp_server' = sftp_server
              /\ session_owner' = "none"
    /\ UNCHANGED <<log, resolveVars, provVars, stop_requested, signals, threadVars, clientVars>>

\* SpawnThread as it would be if sftp_thread were initialised before sftp_server
SpawnThread_early ==
    /\ pc \in {"make_server", "spawn_thread"}
    /\ thread = "none"
    /\ pc' = IF pc = "spawn_thread" THEN "constructed" ELSE pc
    /\ thread' = "spawned"
    /\ joinable' = TRUE
    /\ UNCHANGED <<err, log, resolveVars, provVars, serverVars, exit_cause, joins, clientVars>>

\* the initialiser of sftp_thread: the constructor returns once the thread exists
SpawnThread ==
    /\ pc = "spawn_thread"
    /\ pc' = "constructed"
    /\ thread' = "spawned"
    /\ joinable' = TRUE
    /\ UNCHANGED <<err, log, resolveVars, provVars, serverVars, exit_cause, joins, clientVars>>

\* ThreadRun as it would be if the thread's body called run() again after it returned
ThreadRun_restart ==
    /\ thread \in {"spawned", "finished"}
    /\ thread' = "serving"
    /\ UNCHANGED <<ctlVars, resolveVars, provVars, serverVars, exit_cause, joinable, joins,
                   clientVars>>

\* the thread's body reaches sftp_server->run()
ThreadRun ==
    /\ thread = "spawned"
    /\ thread' = "serving"
    /\ UNCHANGED <<ctlVars, resolveVars, provVars, serverVars, exit_cause, joinable, joins,
                   clientVars>>

\* run() returns because the server was told to stop
ServeStopped ==
    /\ thread = "serving"
    /\ stop_requested
    /\ thread' = "finished"
    /\ exit_cause' = "stopped"
    /\ UNCHANGED <<ctlVars, resolveVars, provVars, serverVars, joinable, joins, clientVars>>

\* run() returns on its own: the transport failed
ServeTransportFailure ==
    /\ thread = "serving"
    /\ ~stop_requested
    /\ thread' = "finished"
    /\ exit_cause' = "transport"
    /\ UNCHANGED <<ctlVars, resolveVars, provVars, serverVars, joinable, joins, clientVars>>

(***************************************************************************)
(* SshfsMount::stop and SshfsMount::~SshfsMount.                           *)
(***************************************************************************)
\* no caller is inside stop()
Quiet == \A u \in Callers : spc[u] = "idle"

\* the mount exists: the constructor has returned and the destructor has not begun
Alive == pc = "constructed" /\ in_dtor = "none" /\ ~destroyed

\* the first statement of stop(): sftp_server->stop()
SignalServer ==
    /\ stop_requested' = TRUE
    /\ signals' = signals + 1

\* CallStop as it would be if stop() waited for the thread without telling the server
CallStop_nosignal(t) ==
    /\ Alive
    /\ spc[t] = "idle"
    /\ nstops < MaxStops
    /\ nstops' = nstops + 1
    /\ spc' = [spc EXCEPT ![t] = "check"]
    /\ UNCHANGED <<ctlVars, resolveVars, provVars, serverVars, threadVars, in_dtor, destroyed>>

\* a caller enters stop() and runs its first statement
CallStop(t) ==
    /\ Alive
    /\ spc[t] = "idle"
    /\ nstops < MaxStops
    /\ nstops' = nstops + 1
    /\ SignalServer
    /\ spc' = [spc EXCEPT ![t] = "check"]
    /\ UNCHANGED <<ctlVars, resolveVars, provVars, session_owner, sftp_server, threadVars,
                   in_dtor, destroyed>>

\* a caller destroys the mount: ~SshfsMount calls stop()
CallDestroy(t) ==
    /\ Alive
    /\ Quiet
    /\ in_dtor' = t
    /\ SignalServer
    /\ spc' = [spc EXCEPT ![t] = "check"]
    /\ UNCHANGED <<ctlVars, resolveVars, provVars, session_owner, sftp_server, threadVars,
                   nstops, destroyed>>

\* stop() returns to caller t; when t runs the destructor, the members are
\* destroyed and the destructor returns
Return(t) ==
    /\ spc' = [spc EXCEPT ![t] = "idle"]
    /\ IF in_dtor = t
       THEN destroyed' = TRUE /\ sftp_server' = "destroyed" /\ session_owner' = "none"
       ELSE UNCHANGED <<destroyed, sftp_server, session_owner>>

\* StopCheck as it would be if stop() joined only a thread that is still running
StopCheck_ifrunning(t) ==
    /\ spc[t] = "check"
    /\ IF joinable /\ thread # "finished"
       THEN /\ spc' = [spc EXCEPT ![t] = "join"]
            /\ UNCHANGED <<destroyed, sftp_server, session_owner>>
       ELSE Return(t)
    /\ UNCHANGED <<ctlVars, resolveVars, provVars, stop_requested, signals, threadVars,
                   in_dtor, nstops>>

\* if (sftp_thread.joinable())
StopCheck(t) ==
    /\ spc[t] = "check"
    /\ IF joinable
       THEN /\ spc' = [spc EXCEPT ![t] = "join"]
            /\ UNCHANGED <<destroyed, sftp_server, session_owner>>
       ELSE Return(t)
    /\ UNCHANGED <<ctlVars, resolveVars, provVars, stop_requested, signals, threadVars,
                   in_dtor, nstops>>

\* StopJoin as it would be if stop() let go of the thread without waiting for it
StopJoin_nowait(t) ==
    /\ spc[t] = "join"
    /\ joinable
    /\ joinable' = FALSE
    /\ joins' = joins + 1
    /\ Return(t)
    /\ UNCHANGED <<ctlVars, resolveVars, provVars, stop_requested, signals, thread, exit_cause,
                   in_dtor, nstops>>

\* sftp_thread.join(): blocks until the thread's body has returned
StopJoin(t) ==
    /\ spc[t] = "join"
    /\ joinable
    /\ thread = "finished"
    /\ joinable' = FALSE
    /\ joins' = joins + 1
    /\ Return(t)
    /\ UNCHANGED <<ctlVars, resolveVars, provVars, stop_requested, signals, thread, exit_cause,
                   in_dtor, nstops>>

\* sftp_thread.join() by a caller that passed the joinable() test while another
\* caller was joining the same thread: the two calls race on the std::thread;
\* the late one returns, or std::system_error leaves stop()
StopJoinAgain(t) ==
    /\ spc[t] = "join"
    /\ ~joinable
    /\ \E outcome \in {"returns", "throws"} :
         IF outcome = "returns" THEN Return(t)
         ELSE /\ spc' = [spc EXCEPT ![t] = "threw"]
              /\ UNCHANGED <<destroyed, sftp_server, session_owner>>
    /\ UNCHANGED <<ctlVars, resolveVars, provVars, stop_requested, signals, threadVars,
                   in_dtor, nstops>>

(***************************************************************************)
(* Specification: one constructing thread, the sftp thread, and a client   *)
(* whose calls of stop() and of the destructor do not overlap.             *)
(***************************************************************************)
Next ==
    \/ ProbeSnap
    \/ ProbeWhich
    \/ QueryVersion
    \/ make_target_dir
    \/ IdNu
    \/ IdNg
    \/ Chown
    \/ IdU
    \/ IdG
    \/ MakeServer
    \/ SpawnThread
    \/ ThreadRun
    \/ ServeStopped
    \/ ServeTransportFailure
    \/ \E t \in Callers : Quiet /\ CallStop(t)
    \/ \E t \in Callers : CallDestroy(t)
    \/ \E t \in Callers : StopCheck(t)
    \/ \E t \in Callers : StopJoin(t)

Spec == Init /\ [][Next]_vars

(***************************************************************************)
(* The same with the scheduling the threads get: the sftp thread runs, a   *)
(* server that was told to stop leaves run(), and a caller inside stop()   *)
(* goes on whenever it can.                                                *)
(***************************************************************************)
Fairness ==
    /\ WF_vars(ThreadRun)
    /\ WF_vars(ServeStopped)
    /\ \A t \in Callers : WF_vars(StopCheck(t)) /\ WF_vars(StopJoin(t))

SpecLive == Spec /\ Fairness

(***************************************************************************)
(* A client whose threads call stop() on the mount without waiting for one *)
(* another.                                                                *)
(***************************************************************************)
NextConc ==
    \/ ProbeSnap
    \/ ProbeWhich
    \/ QueryVersion
    \/ make_target_dir
    \/ IdNu
    \/ IdNg
    \/ Chown
    \/ IdU
    \/ IdG
    \/ MakeServer
    \/ SpawnThread
    \/ ThreadRun
    \/ ServeStopped
    \/ ServeTransportFailure
    \/ \E t \in Callers : CallStop(t)
    \/ \E t \in Callers : CallDestroy(t)
    \/ \E t \in Callers : StopCheck(t)
    \/ \E t \in Callers : StopJoin(t)
    \/ \E t \in Callers : StopJoinAgain(t)

SpecConc == Init /\ [][NextConc]_vars

(***************************************************************************)
(* Vocabulary of the properties.                                           *)
(***************************************************************************)
\* the text a command printed, as run_cmd returns it
Printed(r) == r.out \o r.err

\* some line of text starts with key
HasLine(text, key) ==
    LET ls == SplitChar(text, "\n")
    IN \E i \in 1..Len(ls) : MatchAt(ls[i], key, 1)

\* the first line of text that starts with key, "" when there is none
FirstLine(text, key) ==
    LET ls == SplitChar(text, "\n")
        idx == { i \in 1..Len(ls) : MatchAt(ls[i], key, 1) }
    IN IF idx = {} THEN "" ELSE ls[CHOOSE i \in idx : \A j \in idx : i <= j]

\* what follows the marker, any colons and one space on the version line of
\* the banner; found is FALSE when the line does not have that shape
ReportedVersion(r) ==
    LET line == FirstLine(Printed(r), fuse_version_string)
        e == Len(fuse_version_string) + 1 + RunLen(line, {":"}, Len(fuse_version_string) + 1)
    IN IF line # "" /\ e <= Len(line) /\ CharAt(line, e) = " "
       THEN [found |-> TRUE, text |-> SubSeq(line, e + 1, Len(line))]
       ELSE [found |-> FALSE, text |-> ""]

WellFormed(v) == Semver200_version(v).ok

\* v precedes 3.0.0: a smaller major number, or a pre-release of 3.0.0 itself
Below300(v) ==
    LET p == Semver200_version(v)
    IN p.major < 3 \/ (p.major = 3 /\ p.minor = 0 /\ p.patch = 0 /\ p.pre # "")

Occurrences(cmd) == Cardinality({ i \in 1..Len(log) : log[i] = cmd })

\* the order in which make_sftp_server issues the commands
CommandOrder == <<"snap", "which", "version", "mkdir", "id_nu", "id_ng", "chown", "id_u", "id_g">>

Position(c) == CHOOSE i \in 1..Len(CommandOrder) : CommandOrder[i] = c

Ran(c) == hist[c] # NoResult

Failed(c) == Ran(c) /\ hist[c].code # 0

ResolutionEnded == pc \notin {"probe_snap", "probe_which", "query_version"}

ResolutionFailed == pc \in {"failed", "crashed"} /\ ~Ran("mkdir")

ResolutionSucceeded == ResolutionEnded /\ ~ResolutionFailed

HasLegacyFlag == Contains(sshfs_exec, "-o nonempty")

(***************************************************************************)
(* Properties.                                                             *)
(***************************************************************************)
\* C1: over any sequence of stop() calls followed by destruction, the bridge
\* server is signalled at most once and the thread is joined at most once.
C1_ShutdownAtMostOnce == signals <= 1 /\ joins <= 1

\* C2: once the destructor has returned, the server has been signalled and the
\* background thread has finished and been joined, also when stop() was never
\* called explicitly; a destroyed mount never has a running thread.
C2_DestructorJoins ==
    destroyed =>
        /\ signals >= 1
        /\ thread = "finished"
        /\ ~joinable
        /\ joins = 1
        /\ nstops = 0 => signals = 1

C2_Witness == destroyed /\ nstops = 0 /\ joins = 1

\* C3: when the lookup "sudo which sshfs" fails after the failed helper probe,
\* construction fails with SSHFSMissingError and nothing else has happened: the
\* two probes are the only commands run, no server exists, no thread exists.
C3_BothProbesFail ==
    Failed("which") =>
        /\ pc = "failed"
        /\ err = "SSHFSMissingError"
        /\ log = <<"sudo multipass-sshfs.env", "sudo which sshfs">>
        /\ \A c \in Commands \ {"snap", "which"} : ~Ran(c)
        /\ sftp_server = "null"
        /\ session_owner = "controller"
        /\ thread = "none"
        /\ ~joinable

C3_Witness == Failed("snap") /\ Failed("which") /\ pc = "failed"

\* C4: whenever the helper probe has failed, whatever the reason, the system
\* lookup is the next command and has been run exactly once by the time
\* resolution continues or fails.
C4_SystemLookupExactlyOnce ==
    (Ran("snap") /\ SnapProbe(hist["snap"]).threw) =>
        IF pc = "probe_which" THEN Occurrences("sudo which sshfs") = 0
        ELSE /\ Occurrences("sudo which sshfs") = 1
             /\ log[2] = "sudo which sshfs"
             /\ Ran("which")

C4_Witness ==
    /\ Ran("snap") /\ hist["snap"].code = 0 /\ SnapProbe(hist["snap"]).threw
    /\ pc = "mkdir"
    /\ Occurrences("sudo which sshfs") = 1

\* C5: when the helper exits with status zero but its output lacks the
\* LD_LIBRARY_PATH= line or the SNAP= line, resolution goes on to the system
\* lookup and the invocation is not built from the helper's output.
C5_PartialHelperOutputFallsThrough ==
    ( /\ Ran("snap") /\ hist["snap"].code = 0
      /\ \/ ~HasLine(Printed(hist["snap"]), ld_library_path_key)
         \/ ~HasLine(Printed(hist["snap"]), snap_path_key) ) =>
        /\ ~MatchAt(sshfs_exec, "env ", 1)
        /\ pc # "probe_which" => (Ran("which") /\ log[2] = "sudo which sshfs")

C5_Witness ==
    /\ Ran("snap") /\ hist["snap"].code = 0
    /\ HasLine(Printed(hist["snap"]), ld_library_path_key)
    /\ ~HasLine(Printed(hist["snap"]), snap_path_key)
    /\ pc = "mkdir"
    /\ MatchAt(sshfs_exec, "/usr/bin/sshfs", 1)

\* C6 as stated: once the version query has run, a failed query, an empty
\* banner or a banner without the version line leaves resolution successful
\* and the invocation without " -o nonempty".
C6_AbsentBannerNeverFails ==
    ( /\ Ran("version")
      /\ \/ hist["version"].code # 0
         \/ ~HasLine(Printed(hist["version"]), fuse_version_string) ) =>
        (ResolutionSucceeded /\ ~HasLegacyFlag)

\* C6 amended: a version query that exits with status zero and prints nothing,
\* or a banner without the version line, leaves resolution successful with the
\* fixed options and without " -o nonempty"; a version query that fails makes
\* resolution fail with the command's error.
C6_ZeroExitAbsentBanner ==
    Ran("version") =>
        /\ ( hist["version"].code = 0 /\ ~HasLine(Printed(hist["version"]), fuse_version_string) ) =>
               (ResolutionSucceeded /\ ~HasLegacyFlag /\ EndsWith(sshfs_exec, fixed_options))
        /\ hist["version"].code # 0 =>
               (ResolutionFailed /\ pc = "failed" /\ err = "runtime_error")

C6_Witness ==
    /\ Ran("version") /\ hist["version"].code = 0 /\ Printed(hist["version"]) = ""
    /\ pc = "mkdir"
    /\ EndsWith(sshfs_exec, fixed_options)

\* C7: for a well-formed version V on the version line, resolution succeeds and
\* the invocation has " -o nonempty" exactly when V precedes 3.0.0 by the
\* numbers of its major, minor and patch parts.
C7_LegacyFlagIffBelow300 ==
    ( /\ Ran("version") /\ hist["version"].code = 0
      /\ ReportedVersion(hist["version"]).found
      /\ WellFormed(ReportedVersion(hist["version"]).text) ) =>
        /\ ResolutionSucceeded
        /\ HasLegacyFlag <=> Below300(ReportedVersion(hist["version"]).text)

C7_Witness ==
    /\ Ran("version") /\ hist["version"].code = 0
    /\ ReportedVersion(hist["version"]).text = "10.0.0"
    /\ ResolutionSucceeded
    /\ ~HasLegacyFlag

\* C8: when the version line is present but what follows the marker is empty
\* or not a semantic version, resolution succeeds without " -o nonempty".
C8_UnparsableVersionTolerated ==
    ( /\ Ran("version") /\ hist["version"].code = 0
      /\ HasLine(Printed(hist["version"]), fuse_version_string)
      /\ \/ ~ReportedVersion(hist["version"]).found
         \/ ReportedVersion(hist["version"]).text = ""
         \/ ~WellFormed(ReportedVersion(hist["version"]).text) ) =>
        (ResolutionSucceeded /\ ~HasLegacyFlag)

\* C9: construction is all-or-nothing. A failed command other than the helper
\* probe, or an id output std::stoi cannot read, makes the constructor fail
\* with no later command run; a constructor that failed (or a process that
\* was aborted during it) leaves no server and no thread, and nothing happens
\* after it; a constructor that returned has started the thread.
C9_StateAllOrNothing ==
    /\ \A c \in Commands \ {"snap"} :
         Failed(c) =>
           /\ pc = "failed" /\ err # "none"
           /\ \A d \in Commands : Position(d) > Position(c) => ~Ran(d)
    /\ \A c \in {"id_u", "id_g"} :
         (Ran(c) /\ hist[c].code = 0 /\ stoi(Printed(hist[c])).threw) =>
           /\ pc = "failed" /\ err = "invalid_argument"
           /\ \A d \in Commands : Position(d) > Position(c) => ~Ran(d)
    /\ pc = "failed" => err # "none"
    /\ pc \in {"failed", "crashed"} =>
         /\ sftp_server = "null"
         /\ thread = "none" /\ ~joinable
         /\ signals = 0 /\ joins = 0
    /\ pc = "constructed" =>
         /\ err = "none"
         /\ thread # "none"
         /\ sftp_server # "null"
         /\ \A c \in Commands \ {"which"} : Ran(c)
         /\ \A c \in Commands \ {"snap"} : Ran(c) => hist[c].code = 0
    /\ thread # "none" => pc = "constructed"

C9_AllOrNothing == []C9_StateAllOrNothing /\ [][pc \notin {"failed", "crashed"}]_vars

C9_Witness == pc = "failed" /\ err = "invalid_argument" /\ Ran("id_g") /\ hist["id_g"].code = 0

\* C10: the session has one user at a time. The controller runs commands only
\* while it holds the session; the sftp thread exists only after the session
\* has gone to the server; once the session has left the controller no further
\* command is run on it by the controller.
C10_StateSingleUser ==
    /\ pc \in {"probe_snap", "probe_which", "query_version", "mkdir", "id_nu", "id_ng",
               "chown", "id_u", "id_g", "make_server"} =>
         (session_owner = "controller" /\ thread = "none" /\ sftp_server = "null")
    /\ sftp_server = "constructed" => session_owner = "server"
    /\ thread \in {"spawned", "serving"} => session_owner = "server"

C10_SingleSessionUser ==
    []C10_StateSingleUser /\ [][session_owner # "controller" => log' = log]_vars

C10_Witness == thread = "serving" /\ session_owner = "server" /\ Len(log) >= 9

\* the setup step a logged command belongs to
StepOf(cmd) ==
    IF cmd = "sudo multipass-sshfs.env" THEN "snap"
    ELSE IF cmd = "sudo which sshfs" THEN "which"
    ELSE IF MatchAt(cmd, "sudo mkdir ", 1) THEN "mkdir"
    ELSE IF MatchAt(cmd, "sudo chown ", 1) THEN "chown"
    ELSE IF cmd = "id -nu" THEN "id_nu"
    ELSE IF cmd = "id -ng" THEN "id_ng"
    ELSE IF cmd = "id -u" THEN "id_u"
    ELSE IF cmd = "id -g" THEN "id_g"
    ELSE "version"

\* the logged command of the version query
VersionEntry == log[IF Ran("which") THEN 3 ELSE 2]

\* the position of a state of the sftp thread in its life
ThreadRank(th) ==
    IF th = "none" THEN 0 ELSE IF th = "spawned" THEN 1 ELSE IF th = "serving" THEN 2 ELSE 3

\* C11: the setup commands run in the order resolver (helper probe, system
\* lookup, version query), provisioner (mkdir, id -nu, id -ng, chown), then
\* id -u and id -g; the server is constructed only after all of them, the
\* thread is spawned only after the server exists, and no command runs once
\* the server exists.
C11_StateSetupOrder ==
    /\ \A i \in 1..Len(log) : \A j \in 1..Len(log) :
         i < j => Position(StepOf(log[i])) < Position(StepOf(log[j]))
    /\ sftp_server # "null" =>
         /\ \A c \in Commands \ {"which"} : Ran(c)
         /\ \A c \in Commands \ {"snap"} : Ran(c) => hist[c].code = 0
    /\ thread # "none" => sftp_server # "null"
    /\ pc = "constructed" =>
         LET steps == [i \in 1..Len(log) |-> StepOf(log[i])]
         IN \/ steps = CommandOrder
            \/ steps = <<"snap">> \o SubSeq(CommandOrder, 3, Len(CommandOrder))

C11_SetupOrder ==
    []C11_StateSetupOrder /\ [][log' # log => (sftp_server = "null" /\ thread = "none")]_vars

C11_Witness == pc = "constructed" /\ Ran("which") /\ Len(log) = 9 /\ thread = "serving"

\* C12: a caller waits in join only after the server was signalled; stop()
\* returns only when the thread has finished and is no longer joinable; and,
\* with a serve loop that exits once signalled, every stop() returns.
C12_StateSignalBeforeWait ==
    \A t \in Callers : spc[t] = "join" => (stop_requested /\ signals >= 1)

C12_StopSignalsThenJoins ==
    /\ []C12_StateSignalBeforeWait
    /\ [][\A t \in Callers :
            (spc[t] # "idle" /\ spc'[t] = "idle") => (thread' = "finished" /\ ~joinable')]_vars
    /\ \A t \in Callers : (spc[t] # "idle") ~> (spc[t] = "idle")

C12_Witness ==
    /\ nstops >= 1 /\ Quiet /\ in_dtor = "none"
    /\ exit_cause = "stopped" /\ joins = 1 /\ ~joinable

\* C13: when run() returned on its own, a stop() or a destruction that is under
\* way completes with the finished thread joined, and a destroyed mount has
\* its thread joined.
C13_JoinAfterOwnExit ==
    /\ []((destroyed /\ exit_cause = "transport") => (joins = 1 /\ ~joinable))
    /\ \A t \in Callers :
         (exit_cause = "transport" /\ spc[t] # "idle")
           ~> (spc[t] = "idle" /\ thread = "finished" /\ ~joinable /\ joins = 1)

C13_Witness == exit_cause = "transport" /\ nstops >= 1 /\ Quiet /\ joins = 1 /\ ~joinable

\* C14: when the helper probe succeeded, the system lookup is never run and
\* the executable is "env <LD_LIBRARY_PATH line> <SNAP path>/bin/sshfs".
C14_HelperProbeWins ==
    (Ran("snap") /\ ~SnapProbe(hist["snap"]).threw) =>
        LET text == Printed(hist["snap"])
            ld_line == FirstLine(text, ld_library_path_key)
            snap_line == FirstLine(text, snap_path_key)
            path == SubSeq(snap_line, Len(snap_path_key) + 1, Len(snap_line))
        IN /\ ~Ran("which")
           /\ Occurrences("sudo which sshfs") = 0
           /\ ld_line # "" /\ snap_line # ""
           /\ MatchAt(sshfs_exec, "env " \o ld_line \o " " \o path \o "/bin/sshfs", 1)

C14_Witness ==
    /\ Ran("snap") /\ ~SnapProbe(hist["snap"]).threw
    /\ pc = "constructed"
    /\ MatchAt(sshfs_exec, "env LD_LIBRARY_PATH=/s/lib /s/bin/sshfs", 1)

\* C15: no command is run twice in a mount attempt; a command that exits
\* non-zero makes run_cmd throw with the captured standard error as its text,
\* and, the helper probe apart, ends the attempt.
C15_NoRetry ==
    /\ \A i \in 1..Len(log) : \A j \in 1..Len(log) : i # j => log[i] # log[j]
    /\ Cardinality({ c \in Commands : Ran(c) }) = Len(log)
    /\ \A c \in Commands :
         Failed(c) =>
           /\ run_cmd(hist[c]).threw
           /\ run_cmd(hist[c]).what = hist[c].err
           /\ c # "snap" => pc = "failed"

C15_Witness == Failed("mkdir") /\ pc = "failed" /\ err = "runtime_error"

\* C16: the names in the chown command and the default uid and gid are what the
\* id commands wrote to standard output, whatever they wrote to standard error.
C16_IdentifiersFromStdoutOnly ==
    /\ Ran("chown") =>
         /\ vm_user = trim_end(hist["id_nu"].out)
         /\ vm_group = trim_end(hist["id_ng"].out)
         /\ Occurrences(ChownCmd(trim_end(hist["id_nu"].out), trim_end(hist["id_ng"].out))) = 1
    /\ (Ran("id_u") /\ pc # "failed") => default_uid = stoi(hist["id_u"].out).value
    /\ (Ran("id_g") /\ pc # "failed") => default_gid = stoi(hist["id_g"].out).value

\* C17: after a successful resolution the invocation has each of the three
\* fixed options exactly once, and the version query was run on the executable
\* alone, before the options were appended.
C17_FixedOptionsOnce ==
    /\ ResolutionSucceeded =>
         /\ Count(sshfs_exec, " -o slave") = 1
         /\ Count(sshfs_exec, " -o transform_symlinks") = 1
         /\ Count(sshfs_exec, " -o allow_other") = 1
    /\ Ran("version") =>
         LET bare == SubSeq(VersionEntry, Len("sudo ") + 1, Len(VersionEntry) - Len(" -V"))
         IN /\ VersionEntry = "sudo " \o bare \o " -V"
            /\ ~Contains(VersionEntry, " -o ")
            /\ ResolutionSucceeded => MatchAt(sshfs_exec, bare \o fixed_options, 1)

C17_Witness == ResolutionSucceeded /\ Ran("which") /\ HasLegacyFlag /\ pc = "id_nu"

\* C18: the life of the sftp thread only moves forward, one step at a time; the
\* thread is spawned only by the last step of the constructor; once a stop()
\* has returned the thread is finished and joined; it is joined at most once,
\* and once it is joined nothing about it changes again.
C18_StateStopped ==
    /\ joins <= 1
    /\ joins = 1 => (thread = "finished" /\ ~joinable)
    /\ (Quiet /\ signals >= 1) => joins = 1

C18_LifecycleForward ==
    /\ []C18_StateStopped
    /\ [][/\ thread' # thread => ThreadRank(thread') = ThreadRank(thread) + 1
          /\ (thread = "none" /\ thread' # "none") => (pc = "spawn_thread" /\ pc' = "constructed")
          /\ (~joinable /\ joinable') => thread = "none"
          /\ joins >= 1 => (thread' = thread /\ joinable' = joinable /\ joins' = joins)]_vars

C18_Witness == destroyed /\ nstops >= 2 /\ joins = 1 /\ signals >= 3

\* C19: two callers of stop() are never both at the join of the sftp thread.
C19_AtMostOneJoiner == Cardinality({ t \in Callers : spc[t] = "join" }) <= 1

====
